---- MODULE Spec2Model ----
(***************************************************************************)
(* GPTQ Marlin quantization: config construction, per-layer method         *)
(* selection, and the create_weights / process_weights_after_loading /     *)
(* apply lifecycle of the dense and the MoE method                         *)
(* (vllm/model_executor/layers/quantization/gptq_marlin.py).               *)
(***************************************************************************)
EXTENDS Integers, Sequences, FiniteSets, TLC

VARIABLES
    ctor,      \* the last GPTQMarlinConfig(...) call: its arguments and outcome
    config,    \* the GPTQMarlinConfig object, once one was constructed
    method,    \* what GPTQMarlinConfig.get_quant_method returned for the layer,
               \* with what the call was about: the layer's kind, whether a
               \* "-:" rule matches its name, the capability check's verdict
    dense,     \* the linear layer handled by GPTQMarlinLinearMethod
    moe        \* the FusedMoE layer handled by GPTQMarlinMoEMethod

vars == <<ctor, config, method, dense, moe>>

----------------------------------------------------------------------------
(* Bounds of the model *)

\* experts of the FusedMoE layer
NumExperts == 2
\* process_weights_after_loading calls followed per layer
MaxFinalize == 2
\* apply calls followed per layer
MaxApply == 1

\* constructor arguments tried
BitsSet == {0, 3, 4, 8}
GroupSizes == {-1, 4, 128}

----------------------------------------------------------------------------
(* GPTQMarlinConfig *)

\* (num_bits, is_sym) -> quant_type
TYPE_MAP_KEYS == {<<4, TRUE>>, <<8, TRUE>>}

TYPE_MAP(weight_bits, is_sym) ==
    IF weight_bits = 4 THEN "uint4b8" ELSE "uint8b128"

size_bits(quant_type) ==
    IF quant_type = "uint4b8" THEN 4
    ELSE IF quant_type = "uint8b128" THEN 8 ELSE 0

\* dynamic: ordered override rules.  A pattern is the regex text; Matches
\* tabulates re.match of each pattern against the layer names of the model.
IncludeRule == [pattern |-> "+:.*\\.(1[0-5])\\..*", bits |-> 8]
ExcludeRule == [pattern |-> "-:.*\\.moe\\..*", bits |-> 0]

DynamicChoices == {<<>>, <<IncludeRule, ExcludeRule>>}

LayerNames == {"", "layers.12.mlp", "layers.5.moe.gate", "layers.12.moe.gate"}

Matches(pattern, layer_name) ==
    IF pattern = IncludeRule.pattern
    THEN layer_name \in {"layers.12.mlp", "layers.12.moe.gate"}
    ELSE IF pattern = ExcludeRule.pattern
    THEN layer_name \in {"layers.5.moe.gate", "layers.12.moe.gate"}
    ELSE FALSE

IsExclude(rule) == rule.pattern = ExcludeRule.pattern

NoConfig ==
    [weight_bits |-> 0, is_sym |-> FALSE, pack_factor |-> 0,
     group_size |-> 0, desc_act |-> FALSE, quant_type |-> "none",
     dynamic |-> <<>>]

NoCall ==
    [weight_bits |-> 0, is_sym |-> FALSE, group_size |-> 0,
     desc_act |-> FALSE, outcome |-> "none"]

\* The exception GPTQMarlinConfig.__init__ ends with, or "ok".
\* 32 // weight_bits is evaluated before the TYPE_MAP membership test.
InitOutcome(weight_bits, is_sym) ==
    IF weight_bits = 0 THEN "ZeroDivisionError"
    ELSE IF <<weight_bits, is_sym>> \notin TYPE_MAP_KEYS THEN "ValueError"
    ELSE "ok"

GPTQMarlinConfig_KeepDescAct(weight_bits, group_size, desc_act, is_sym, dynamic) ==
    [weight_bits |-> weight_bits,
     is_sym      |-> is_sym,
     pack_factor |-> 32 \div weight_bits,
     group_size  |-> group_size,
     desc_act    |-> desc_act,
     quant_type  |-> TYPE_MAP(weight_bits, is_sym),
     dynamic     |-> dynamic]

GPTQMarlinConfig_PackFactorIsBits(weight_bits, group_size, desc_act, is_sym, dynamic) ==
    [weight_bits |-> weight_bits,
     is_sym      |-> is_sym,
     pack_factor |-> weight_bits,
     group_size  |-> group_size,
     desc_act    |-> IF desc_act /\ group_size = -1 THEN FALSE ELSE desc_act,
     quant_type  |-> TYPE_MAP(weight_bits, is_sym),
     dynamic     |-> dynamic]

\* The object GPTQMarlinConfig.__init__ builds when it does not raise.
GPTQMarlinConfig(weight_bits, group_size, desc_act, is_sym, dynamic) ==
    [weight_bits |-> weight_bits,
     is_sym      |-> is_sym,
     pack_factor |-> 32 \div weight_bits,
     group_size  |-> group_size,
     desc_act    |-> IF desc_act /\ group_size = -1 THEN FALSE ELSE desc_act,
     quant_type  |-> TYPE_MAP(weight_bits, is_sym),
     dynamic     |-> dynamic]

----------------------------------------------------------------------------
(* Per-layer override rules (gptq_utils) *)

\* get_dynamic_override(config, layer_name) == False: some "-:" rule matches.
get_dynamic_override_is_False(cfg, layer_name) ==
    \E i \in DOMAIN cfg.dynamic :
        IsExclude(cfg.dynamic[i]) /\ Matches(cfg.dynamic[i].pattern, layer_name)

RECURSIVE ApplyRules(_, _, _, _)
ApplyRules(cfg, rules, i, prefix) ==
    IF i > Len(rules) THEN cfg
    ELSE IF ~IsExclude(rules[i]) /\ Matches(rules[i].pattern, prefix)
    THEN ApplyRules([cfg EXCEPT !.weight_bits = rules[i].bits,
                                !.pack_factor = 32 \div rules[i].bits,
                                !.quant_type  = TYPE_MAP(rules[i].bits, cfg.is_sym)],
                    rules, i + 1, prefix)
    ELSE ApplyRules(cfg, rules, i + 1, prefix)

\* override_config(cloned_config, prefix): the fields of every matching
\* "+:" rule overwrite the clone's, in list order.
override_config(cfg, prefix) == ApplyRules(cfg, cfg.dynamic, 1, prefix)

----------------------------------------------------------------------------
(* Method selection *)

NoMethod ==
    [kind |-> "none", quant_config |-> NoConfig, layer_kind |-> "none",
     excluded |-> FALSE, supported |-> FALSE]

Selected(kind, quant_config) == [kind |-> kind, quant_config |-> quant_config]

\* GPTQMarlinMoEMethod.__init__
GPTQMarlinMoEMethod_init(quant_config) ==
    IF size_bits(quant_config.quant_type) \in {4, 8}
    THEN Selected("GPTQMarlinMoEMethod", quant_config)
    ELSE Selected("ValueError", NoConfig)

\* verify_marlin_supported(quant_type, group_size): raises when the platform
\* check fails; supported is that check's verdict.
verify_marlin_supported_raises(supported) == ~supported

\* GPTQMarlinLinearMethod.__init__
GPTQMarlinLinearMethod_init(quant_config, supported) ==
    IF verify_marlin_supported_raises(supported)
    THEN Selected("ValueError", NoConfig)
    ELSE Selected("GPTQMarlinLinearMethod", quant_config)

get_moe_quant_method(cfg, layer_kind, prefix) ==
    IF layer_kind = "FusedMoE"
    THEN IF get_dynamic_override_is_False(cfg, prefix)
         THEN Selected("UnquantizedFusedMoEMethod", NoConfig)
         ELSE GPTQMarlinMoEMethod_init(
                  IF prefix # "" THEN override_config(cfg, prefix) ELSE cfg)
    ELSE Selected("None", NoConfig)

get_linear_quant_method(cfg, layer_kind, prefix, supported) ==
    IF get_dynamic_override_is_False(cfg, prefix)
    THEN Selected("UnquantizedLinearMethod", NoConfig)
    ELSE GPTQMarlinLinearMethod_init(
             IF prefix # "" THEN override_config(cfg, prefix) ELSE cfg,
             supported)

get_quant_method_NoFallback(cfg, layer_kind, prefix, supported) ==
    IF layer_kind = "FusedMoE"
    THEN IF ~supported
         THEN Selected("ValueError", NoConfig)
         ELSE get_moe_quant_method(cfg, layer_kind, prefix)
    ELSE get_linear_quant_method(cfg, layer_kind, prefix, supported)

\* GPTQMarlinConfig.get_quant_method.  supported is the verdict of
\* check_moe_marlin_supports_layer (FusedMoE) or of the platform check made
\* by the linear method's constructor.
get_quant_method(cfg, layer_kind, prefix, supported) ==
    IF layer_kind = "FusedMoE"
    THEN IF ~supported
         THEN Selected("MoeWNA16", NoConfig)
         ELSE get_moe_quant_method(cfg, layer_kind, prefix)
    ELSE get_linear_quant_method(cfg, layer_kind, prefix, supported)

LayerKinds == {"FusedMoE", "LinearBase"}

----------------------------------------------------------------------------
(* GPTQMarlinLinearMethod *)

RECURSIVE Sum(_)
Sum(sizes) == IF sizes = <<>> THEN 0 ELSE Head(sizes) + Sum(Tail(sizes))

\* marlin_repeat_scales_on_all_ranks(act_order, group_size, is_row_parallel):
\* scales are repeated on every rank unless activation order is enabled and
\* the layer is row-parallel.
marlin_repeat_scales_on_all_ranks(act_order, group_size, is_row_parallel) ==
    ~act_order \/ ~is_row_parallel

\* Layer shapes tried: row-parallel (input_size # input_size_per_partition) and
\* not, plain and merged output partitions.  choose_mp_linear_kernel accepts
\* only exact multiples of pack_factor and group_size (ShapeAccepted).
DenseShapes ==
    {[input_size |-> s[1], input_size_per_partition |-> s[2],
      output_partition_sizes |-> o] :
        s \in {<<16, 16>>, <<16, 8>>, <<32, 16>>, <<4096, 4096>>, <<4096, 2048>>},
        o \in {<<8>>, <<8, 8>>, <<4096>>}}

ShapeAccepted(quant_config, shape) ==
    /\ shape.input_size_per_partition % quant_config.pack_factor = 0
    /\ Sum(shape.output_partition_sizes) % quant_config.pack_factor = 0
    /\ quant_config.group_size # -1 =>
           shape.input_size_per_partition % quant_config.group_size = 0

NoDense ==
    [phase |-> "Uninitialized", has_kernel |-> FALSE,
     input_size |-> 0, input_size_per_partition |-> 0,
     output_size_per_partition |-> 0, is_row_parallel |-> FALSE,
     group_size |-> 0,
     scales_and_zp_input_dim |-> "unset", scales_and_zp_size |-> 0,
     qweight |-> [shape |-> <<>>, input_dim |-> "unset", output_dim |-> "unset",
                  packed_dim |-> "unset", packed_factor |-> 0],
     g_idx   |-> [shape |-> <<>>, input_dim |-> "unset"],
     scales  |-> [cls |-> "none", shape |-> <<>>, input_dim |-> "unset",
                  output_dim |-> "unset"],
     qzeros  |-> [cls |-> "none", shape |-> <<>>, input_dim |-> "unset",
                  output_dim |-> "unset", packed_dim |-> "unset",
                  packed_factor |-> 0],
     finalize_calls |-> 0, last_finalize |-> "none",
     apply_calls |-> 0,
     last_apply |-> [outcome |-> "none", phase |-> "none"]]

\* Normalize group_size
NormalizeGroupSize_Partition(quant_config, input_size_per_partition, input_size) ==
    IF quant_config.group_size # -1
    THEN quant_config.group_size
    ELSE input_size_per_partition

NormalizeGroupSize(quant_config, input_size_per_partition, input_size) ==
    IF quant_config.group_size # -1
    THEN quant_config.group_size
    ELSE input_size

\* Determine sharding: scales_and_zp_input_dim and scales_and_zp_size
DetermineSharding_Swapped(quant_config, input_size_per_partition, input_size) ==
    LET group_size == NormalizeGroupSize(quant_config, input_size_per_partition,
                                         input_size)
    IN  IF marlin_repeat_scales_on_all_ranks(
               quant_config.desc_act, quant_config.group_size,
               input_size # input_size_per_partition)
        THEN [input_dim |-> "0",
              size |-> input_size_per_partition \div group_size]
        ELSE [input_dim |-> "None", size |-> input_size \div group_size]

DetermineSharding(quant_config, input_size_per_partition, input_size) ==
    LET group_size == NormalizeGroupSize(quant_config, input_size_per_partition,
                                         input_size)
    IN  IF marlin_repeat_scales_on_all_ranks(
               quant_config.desc_act, quant_config.group_size,
               input_size # input_size_per_partition)
        THEN \* weight_loader will repeat the scales on each GPU in TP>1 case
             [input_dim |-> "None", size |-> input_size \div group_size]
        ELSE \* weight_loader will shard the scales in TP>1 case
             [input_dim |-> "0",
              size |-> input_size_per_partition \div group_size]

\* The layer after GPTQMarlinLinearMethod.create_weights registered its
\* parameters and built self.kernel.
GPTQMarlinLinearMethod_create_weights(quant_config, input_size_per_partition, output_partition_sizes, input_size) ==
    LET output_size_per_partition == Sum(output_partition_sizes)
        is_row_parallel == input_size # input_size_per_partition
        group_size == NormalizeGroupSize(quant_config, input_size_per_partition,
                                         input_size)
        sharding == DetermineSharding(quant_config, input_size_per_partition,
                                      input_size)
        scales_and_zp_input_dim == sharding.input_dim
        scales_and_zp_size == sharding.size
    IN  [NoDense EXCEPT
            !.phase = "WeightsAllocated",
            !.has_kernel = TRUE,
            !.input_size = input_size,
            !.input_size_per_partition = input_size_per_partition,
            !.output_size_per_partition = output_size_per_partition,
            !.is_row_parallel = is_row_parallel,
            !.group_size = group_size,
            !.scales_and_zp_input_dim = scales_and_zp_input_dim,
            !.scales_and_zp_size = scales_and_zp_size,
            !.qweight = [shape |-> <<input_size_per_partition
                                        \div quant_config.pack_factor,
                                     output_size_per_partition>>,
                         input_dim |-> "0", output_dim |-> "1",
                         packed_dim |-> "0",
                         packed_factor |-> quant_config.pack_factor],
            !.g_idx = [shape |-> <<input_size_per_partition>>,
                       input_dim |-> "0"],
            !.scales =
                IF scales_and_zp_input_dim = "None"
                THEN [cls |-> "ChannelQuantScaleParameter",
                      shape |-> <<scales_and_zp_size, output_size_per_partition>>,
                      input_dim |-> "None", output_dim |-> "1"]
                ELSE [cls |-> "GroupQuantScaleParameter",
                      shape |-> <<scales_and_zp_size, output_size_per_partition>>,
                      input_dim |-> "0", output_dim |-> "1"],
            !.qzeros =
                IF scales_and_zp_input_dim = "None"
                THEN [cls |-> "PackedColumnParameter",
                      shape |-> <<scales_and_zp_size,
                                  output_size_per_partition
                                      \div quant_config.pack_factor>>,
                      input_dim |-> "None", output_dim |-> "1",
                      packed_dim |-> "1",
                      packed_factor |-> quant_config.pack_factor]
                ELSE [cls |-> "PackedvLLMParameter",
                      shape |-> <<scales_and_zp_size,
                                  output_size_per_partition
                                      \div quant_config.pack_factor>>,
                      input_dim |-> "0", output_dim |-> "1",
                      packed_dim |-> "1",
                      packed_factor |-> quant_config.pack_factor]]

\* GPTQMarlinLinearMethod.process_weights_after_loading: hands the layer to
\* self.kernel, an attribute only create_weights sets.
GPTQMarlinLinearMethod_process_weights_after_loading(layer) ==
    IF ~layer.has_kernel
    THEN [layer EXCEPT !.last_finalize = "AttributeError"]
    ELSE [layer EXCEPT !.phase = "Finalized",
                       !.finalize_calls = @ + 1,
                       !.last_finalize = "ok"]

\* GPTQMarlinLinearMethod.apply: self.kernel.apply_weights(layer, x, bias).
GPTQMarlinLinearMethod_apply(layer) ==
    IF ~layer.has_kernel
    THEN [layer EXCEPT !.apply_calls = @ + 1,
                       !.last_apply = [outcome |-> "AttributeError",
                                       phase |-> layer.phase]]
    ELSE [layer EXCEPT !.apply_calls = @ + 1,
                       !.last_apply = [outcome |-> "kernel",
                                       phase |-> layer.phase]]

----------------------------------------------------------------------------
(* Tensors of the FusedMoE layer *)

Experts == 1..NumExperts

\* An index tensor: data[e] is expert e's row; torch.empty leaves the
\* elements unwritten (init = FALSE) until the loader or finalize writes them.
Uninit(shape) == [shape |-> shape, init |-> FALSE, data |-> <<>>]

EmptyRows(num_experts) ==
    [shape |-> <<num_experts, 0>>, init |-> TRUE,
     data |-> [e \in 1..num_experts |-> <<>>]]

\* g_idx rows the checkpoints tried hold for an expert with n input
\* positions: an unsorted row in which two positions share a group id in one
\* projection, and a rotated row of distinct group ids in the other.
Checkpoints == {"tied_w13", "tied_w2"}

TiedRow(n) ==
    [i \in 1..n |-> IF i = 1 THEN 1 ELSE IF i \in {2, 3} THEN 0 ELSE i - 1]

RotatedRow(n) == [i \in 1..n |-> i % n]

W13GIdxRow(checkpoint, n) ==
    IF checkpoint = "tied_w13" THEN TiedRow(n) ELSE RotatedRow(n)

W2GIdxRow(checkpoint, n) ==
    IF checkpoint = "tied_w2" THEN TiedRow(n) ELSE RotatedRow(n)

\* The positions 1..n of row ordered by (value, position).
PositionsByValue(row) ==
    SortSeq([i \in DOMAIN row |-> i],
            LAMBDA a, b : row[a] < row[b] \/ (row[a] = row[b] /\ a < b))

\* Where the run of equal values around slot k of byValue starts and ends.
RECURSIVE TieStart(_, _, _)
TieStart(row, byValue, k) ==
    IF k > 1 /\ row[byValue[k - 1]] = row[byValue[k]]
    THEN TieStart(row, byValue, k - 1)
    ELSE k

RECURSIVE TieEnd(_, _, _)
TieEnd(row, byValue, k) ==
    IF k < Len(row) /\ row[byValue[k + 1]] = row[byValue[k]]
    THEN TieEnd(row, byValue, k + 1)
    ELSE k

\* The orders of the first k output slots: slot k takes any position not yet
\* taken whose value is the k-th smallest.
RECURSIVE SortingOrders(_, _, _)
SortingOrders(row, byValue, k) ==
    IF k = 0 THEN {<<>>}
    ELSE LET first == TieStart(row, byValue, k)
             last == TieEnd(row, byValue, k)
         IN  UNION {{Append(r, byValue[m] - 1) :
                        m \in {t \in first..last :
                                  \A u \in first..(k - 1) :
                                      r[u] # byValue[t] - 1}} :
                    r \in SortingOrders(row, byValue, k - 1)}

argsort_Unsorted(row) == {[i \in DOMAIN row |-> i - 1]}

\* torch.argsort(row) with its default stable=False: some permutation of
\* 0..n-1 that orders the row ascending; the order of equal elements is not
\* determined.
argsort(row) == SortingOrders(row, PositionsByValue(row), Len(row))

\* What the loop over the experts can compute for the first e rows of an
\* index tensor: one argsort result per expert.
RECURSIVE ArgsortRows(_, _)
ArgsortRows(data, e) ==
    IF e = 0 THEN {<<>>}
    ELSE {Append(r, p) : r \in ArgsortRows(data, e - 1), p \in argsort(data[e])}

\* row[indices] (indices are 0-based)
Gather(row, indices) == [k \in DOMAIN indices |-> row[indices[k] + 1]]

\* Shape of the tensor ops.gptq_marlin_moe_repack returns.
MarlinRepackShape(num_experts, size_k, size_n, num_bits) ==
    <<num_experts, size_k \div 16, size_n * (num_bits \div 2)>>

NoRepack == [perm |-> Uninit(<<>>), size_k |-> 0, size_n |-> 0, num_bits |-> 0]
NoPermute == [size_k |-> 0, size_n |-> 0, group_size |-> 0, scale_rows |-> 0]

NoMoE ==
    [phase |-> "Uninitialized", registered |-> FALSE,
     hidden_size |-> 0, intermediate_size_per_partition |-> 0,
     intermediate_size_full |-> 0,
     is_k_full |-> FALSE, strategy |-> "none",
     w13_qweight |-> [shape |-> <<>>, repacks |-> 0],
     w2_qweight  |-> [shape |-> <<>>, repacks |-> 0],
     w13_scales  |-> [shape |-> <<>>, permutes |-> 0],
     w2_scales   |-> [shape |-> <<>>, permutes |-> 0],
     w13_qzeros  |-> [shape |-> <<>>],
     w2_qzeros   |-> [shape |-> <<>>],
     w2_scales_load_full_w2 |-> FALSE,
     w2_qzeros_load_full_w2 |-> FALSE,
     w13_g_idx |-> Uninit(<<>>), w2_g_idx |-> Uninit(<<>>),
     w13_g_idx_sort_indices |-> Uninit(<<>>),
     w2_g_idx_sort_indices |-> Uninit(<<>>),
     loaded |-> FALSE,
     repack_w13 |-> NoRepack, repack_w2 |-> NoRepack,
     permute_w13 |-> NoPermute, permute_w2 |-> NoPermute,
     steps |-> <<>>,
     finalize_calls |-> 0, last_finalize |-> "none",
     apply_calls |-> 0,
     last_apply |-> [outcome |-> "none", phase |-> "none",
                     select_experts |-> FALSE, enable_eplb |-> FALSE,
                     activation |-> "none"]]

\* FusedMoE shapes tried; full # per-partition is the tensor-parallel case.
MoEShapes ==
    {[hidden_size |-> s[1], intermediate_size_per_partition |-> s[2],
      intermediate_size_full |-> s[3]] :
        s \in {<<16, 16, 16>>, <<32, 16, 32>>}}

MoEShapeAccepted(quant_config, shape) ==
    /\ shape.hidden_size % quant_config.pack_factor = 0
    /\ shape.intermediate_size_per_partition % quant_config.pack_factor = 0
    /\ quant_config.group_size # -1 =>
           /\ shape.hidden_size % quant_config.group_size = 0
           /\ shape.intermediate_size_per_partition
                  % quant_config.group_size = 0

----------------------------------------------------------------------------
(* GPTQMarlinMoEMethod *)

\* The input extent the down-projection scales are sized on.
w2_scales_size_Swapped(quant_config, intermediate_size_per_partition, intermediate_size_full) ==
    IF quant_config.desc_act
    THEN intermediate_size_per_partition
    ELSE intermediate_size_full

w2_scales_size(quant_config, intermediate_size_per_partition, intermediate_size_full) ==
    IF quant_config.desc_act
    THEN intermediate_size_full
    ELSE intermediate_size_per_partition

GPTQMarlinMoEMethod_create_weights(quant_config, num_experts, hidden_size, intermediate_size_per_partition, intermediate_size_full) ==
    LET is_k_full == (~quant_config.desc_act)
                     \/ intermediate_size_per_partition = intermediate_size_full
        group_wise == quant_config.group_size # -1
        scales_size13 == IF group_wise
                         THEN hidden_size \div quant_config.group_size
                         ELSE 1
        scales_size2 == IF group_wise
                        THEN w2_scales_size(quant_config,
                                            intermediate_size_per_partition,
                                            intermediate_size_full)
                                 \div quant_config.group_size
                        ELSE 1
    IN  [NoMoE EXCEPT
            !.phase = "WeightsAllocated",
            !.registered = TRUE,
            !.hidden_size = hidden_size,
            !.intermediate_size_per_partition = intermediate_size_per_partition,
            !.intermediate_size_full = intermediate_size_full,
            !.is_k_full = is_k_full,
            !.strategy = IF group_wise THEN "group" ELSE "channel",
            !.w13_qweight = [shape |-> <<num_experts,
                                         hidden_size \div quant_config.pack_factor,
                                         2 * intermediate_size_per_partition>>,
                             repacks |-> 0],
            !.w2_qweight = [shape |-> <<num_experts,
                                        intermediate_size_per_partition
                                            \div quant_config.pack_factor,
                                        hidden_size>>,
                            repacks |-> 0],
            !.w13_scales = [shape |-> <<num_experts, scales_size13,
                                        2 * intermediate_size_per_partition>>,
                            permutes |-> 0],
            !.w2_scales = [shape |-> <<num_experts, scales_size2, hidden_size>>,
                           permutes |-> 0],
            !.w2_scales_load_full_w2 = quant_config.desc_act,
            !.w13_qzeros = [shape |-> <<num_experts, scales_size13,
                                        (2 * intermediate_size_per_partition)
                                            \div quant_config.pack_factor>>],
            !.w2_qzeros = [shape |-> <<num_experts, scales_size2,
                                       hidden_size \div quant_config.pack_factor>>],
            !.w2_qzeros_load_full_w2 = quant_config.desc_act,
            !.w13_g_idx = Uninit(<<num_experts, hidden_size>>),
            !.w2_g_idx = Uninit(<<num_experts, intermediate_size_per_partition>>),
            !.w13_g_idx_sort_indices = Uninit(<<num_experts, hidden_size>>),
            !.w2_g_idx_sort_indices =
                Uninit(<<num_experts, intermediate_size_per_partition>>)]

\* The weight loader writes each expert's checkpoint rows into the g_idx
\* tensors create_weights allocated.
LoadWeights(layer, checkpoint) ==
    [layer EXCEPT
        !.loaded = TRUE,
        !.w13_g_idx = [shape |-> @.shape, init |-> TRUE,
                       data |-> [e \in 1..@.shape[1] |->
                                    W13GIdxRow(checkpoint[e], @.shape[2])]],
        !.w2_g_idx = [shape |-> @.shape, init |-> TRUE,
                      data |-> [e \in 1..@.shape[1] |->
                                   W2GIdxRow(checkpoint[e], @.shape[2])]]]

ProcessActOrder_KeepIndices(layer, quant_config, si13, si2) ==
    LET num_experts == layer.w13_g_idx.shape[1]
        g13 == layer.w13_g_idx.data
        g2 == layer.w2_g_idx.data
    IN  IF quant_config.desc_act
        THEN [layer EXCEPT
                !.steps = Append(@, "act_order"),
                !.w13_g_idx = [shape |-> layer.w13_g_idx.shape, init |-> TRUE,
                               data |-> [e \in 1..num_experts |->
                                            Gather(g13[e], si13[e])]],
                !.w2_g_idx = [shape |-> layer.w2_g_idx.shape, init |-> TRUE,
                              data |-> [e \in 1..num_experts |->
                                            Gather(g2[e], si2[e])]],
                !.w13_g_idx_sort_indices =
                    [shape |-> layer.w13_g_idx.shape, init |-> TRUE,
                     data |-> si13],
                !.w2_g_idx_sort_indices =
                    [shape |-> layer.w2_g_idx.shape, init |-> TRUE,
                     data |-> si2]]
        ELSE [layer EXCEPT
                !.steps = Append(@, "act_order"),
                !.w13_g_idx_sort_indices = EmptyRows(num_experts),
                !.w2_g_idx_sort_indices = EmptyRows(num_experts)]

\* Process act_order: the four index tensors after the first half of
\* process_weights_after_loading.  si13[e], si2[e] are what torch.argsort
\* returned for expert e's rows.
ProcessActOrder(layer, quant_config, si13, si2) ==
    LET num_experts == layer.w13_g_idx.shape[1]
        g13 == layer.w13_g_idx.data
        g2 == layer.w2_g_idx.data
    IN  IF quant_config.desc_act
        THEN [layer EXCEPT
                !.steps = Append(@, "act_order"),
                !.w13_g_idx = [shape |-> layer.w13_g_idx.shape, init |-> TRUE,
                               data |-> [e \in 1..num_experts |->
                                            Gather(g13[e], si13[e])]],
                !.w2_g_idx = [shape |-> layer.w2_g_idx.shape, init |-> TRUE,
                              data |-> [e \in 1..num_experts |->
                                            Gather(g2[e], si2[e])]],
                !.w13_g_idx_sort_indices =
                    [shape |-> layer.w13_g_idx.shape, init |-> TRUE,
                     data |-> si13],
                !.w2_g_idx_sort_indices =
                    [shape |-> layer.w2_g_idx.shape, init |-> TRUE,
                     data |-> si2]]
        ELSE \* Reset g_idx related tensors
             [layer EXCEPT
                !.steps = Append(@, "act_order"),
                !.w13_g_idx = EmptyRows(num_experts),
                !.w2_g_idx = EmptyRows(num_experts),
                !.w13_g_idx_sort_indices = EmptyRows(num_experts),
                !.w2_g_idx_sort_indices = EmptyRows(num_experts)]

\* size_k handed to marlin_moe_permute_scales for w2_scales
w2_scales_size_k_GroupOnly(layer, quant_config) ==
    layer.w2_scales.shape[2] * quant_config.group_size

w2_scales_size_k(layer, quant_config) ==
    layer.w2_scales.shape[2]
        * (IF quant_config.group_size # -1
           THEN quant_config.group_size
           ELSE quant_config.pack_factor)

\* Repack weights, then repack scales.
RepackWeightsAndScales(layer, quant_config) ==
    LET num_bits == size_bits(quant_config.quant_type)
        k13 == layer.w13_qweight.shape[2] * quant_config.pack_factor
        n13 == layer.w13_qweight.shape[3]
        k2  == layer.w2_qweight.shape[2] * quant_config.pack_factor
        n2  == layer.w2_qweight.shape[3]
        sk13 == layer.intermediate_size_per_partition
        sk2 == w2_scales_size_k(layer, quant_config)
    IN  [layer EXCEPT
            !.steps = @ \o <<"repack_w13", "repack_w2",
                             "permute_w13", "permute_w2">>,
            !.repack_w13 = [perm |-> layer.w13_g_idx_sort_indices,
                            size_k |-> k13, size_n |-> n13,
                            num_bits |-> num_bits],
            !.w13_qweight = [shape |-> MarlinRepackShape(
                                 layer.w13_qweight.shape[1], k13, n13, num_bits),
                             repacks |-> @.repacks + 1],
            !.repack_w2 = [perm |-> layer.w2_g_idx_sort_indices,
                           size_k |-> k2, size_n |-> n2, num_bits |-> num_bits],
            !.w2_qweight = [shape |-> MarlinRepackShape(
                                layer.w2_qweight.shape[1], k2, n2, num_bits),
                            repacks |-> @.repacks + 1],
            !.permute_w13 = [size_k |-> sk13,
                             size_n |-> layer.w13_scales.shape[3],
                             group_size |-> quant_config.group_size,
                             scale_rows |-> layer.w13_scales.shape[2]],
            !.w13_scales = [@ EXCEPT !.permutes = @ + 1],
            !.permute_w2 = [size_k |-> sk2,
                            size_n |-> layer.w2_scales.shape[3],
                            group_size |-> quant_config.group_size,
                            scale_rows |-> layer.w2_scales.shape[2]],
            !.w2_scales = [@ EXCEPT !.permutes = @ + 1]]

GPTQMarlinMoEMethod_process_weights_after_loading_RepackFirst(layer, quant_config, si13, si2) ==
    IF ~layer.registered
    THEN [layer EXCEPT !.last_finalize = "AttributeError"]
    ELSE [ProcessActOrder(
              RepackWeightsAndScales([layer EXCEPT !.steps = <<>>],
                                     quant_config),
              quant_config, si13, si2)
          EXCEPT !.phase = "Finalized",
                 !.finalize_calls = @ + 1,
                 !.last_finalize = "ok"]

\* GPTQMarlinMoEMethod.process_weights_after_loading; reading layer.w13_g_idx
\* fails on a layer create_weights never registered parameters on.  steps
\* lists, in order, what the call has done to the layer.
GPTQMarlinMoEMethod_process_weights_after_loading(layer, quant_config, si13, si2) ==
    IF ~layer.registered
    THEN [layer EXCEPT !.last_finalize = "AttributeError"]
    ELSE [RepackWeightsAndScales(
              ProcessActOrder([layer EXCEPT !.steps = <<>>],
                              quant_config, si13, si2),
              quant_config)
          EXCEPT !.phase = "Finalized",
                 !.finalize_calls = @ + 1,
                 !.last_finalize = "ok"]

GPTQMarlinMoEMethod_apply_NoActivationCheck(layer, enable_eplb, activation) ==
    LET outcome ==
            IF enable_eplb THEN "NotImplementedError"
            ELSE IF ~layer.registered THEN "AttributeError"
            ELSE "kernel"
    IN  [layer EXCEPT
            !.apply_calls = @ + 1,
            !.last_apply = [outcome |-> outcome, phase |-> layer.phase,
                            select_experts |->
                                outcome \in {"AttributeError", "kernel"},
                            enable_eplb |-> enable_eplb,
                            activation |-> activation]]

\* GPTQMarlinMoEMethod.apply: the enable_eplb test, the activation assertion,
\* FusedMoE.select_experts, then fused_marlin_moe on the layer's tensors
\* (reading them fails on a layer without registered parameters).  It assigns
\* nothing on the layer; apply_calls and last_apply record the call.
GPTQMarlinMoEMethod_apply(layer, enable_eplb, activation) ==
    LET outcome ==
            IF enable_eplb THEN "NotImplementedError"
            ELSE IF activation # "silu" THEN "AssertionError"
            ELSE IF ~layer.registered THEN "AttributeError"
            ELSE "kernel"
    IN  [layer EXCEPT
            !.apply_calls = @ + 1,
            !.last_apply = [outcome |-> outcome, phase |-> layer.phase,
                            select_experts |->
                                outcome \in {"AttributeError", "kernel"},
                            enable_eplb |-> enable_eplb,
                            activation |-> activation]]

Activations == {"silu", "gelu"}

----------------------------------------------------------------------------
(* The state machine *)

Init ==
    /\ ctor = NoCall
    /\ config = NoConfig
    /\ method = NoMethod
    /\ dense = NoDense
    /\ moe = NoMoE

\* GPTQMarlinConfig(weight_bits, group_size, desc_act, is_sym, ..., dynamic)
Construct ==
    /\ ctor.outcome = "none"
    /\ \E weight_bits \in BitsSet, group_size \in GroupSizes,
          desc_act \in BOOLEAN, is_sym \in BOOLEAN, dynamic \in DynamicChoices :
          /\ ctor' = [weight_bits |-> weight_bits, is_sym |-> is_sym,
                      group_size |-> group_size, desc_act |-> desc_act,
                      outcome |-> InitOutcome(weight_bits, is_sym)]
          /\ config' = IF InitOutcome(weight_bits, is_sym) = "ok"
                       THEN GPTQMarlinConfig(weight_bits, group_size, desc_act,
                                             is_sym, dynamic)
                       ELSE config
    /\ UNCHANGED <<method, dense, moe>>

\* config.get_quant_method(layer, prefix)
GetQuantMethod ==
    /\ ctor.outcome = "ok"
    /\ method.kind = "none"
    /\ \E layer_kind \in LayerKinds, prefix \in LayerNames,
          supported \in BOOLEAN :
          LET m == get_quant_method(config, layer_kind, prefix, supported)
          IN  method' = [kind |-> m.kind, quant_config |-> m.quant_config,
                         layer_kind |-> layer_kind,
                         excluded |->
                             get_dynamic_override_is_False(config, prefix),
                         supported |-> supported]
    /\ UNCHANGED <<ctor, config, dense, moe>>

DenseCreateWeights ==
    /\ method.kind = "GPTQMarlinLinearMethod"
    /\ dense.phase = "Uninitialized"
    /\ \E shape \in DenseShapes :
          /\ ShapeAccepted(method.quant_config, shape)
          /\ dense' = GPTQMarlinLinearMethod_create_weights(
                          method.quant_config, shape.input_size_per_partition,
                          shape.output_partition_sizes, shape.input_size)
    /\ UNCHANGED <<ctor, config, method, moe>>

DenseProcessWeightsAfterLoading ==
    /\ method.kind = "GPTQMarlinLinearMethod"
    /\ dense.finalize_calls < MaxFinalize
    /\ dense' = GPTQMarlinLinearMethod_process_weights_after_loading(dense)
    /\ UNCHANGED <<ctor, config, method, moe>>

DenseApply ==
    /\ method.kind = "GPTQMarlinLinearMethod"
    /\ dense.apply_calls < MaxApply
    /\ dense' = GPTQMarlinLinearMethod_apply(dense)
    /\ UNCHANGED <<ctor, config, method, moe>>

MoECreateWeights ==
    /\ method.kind = "GPTQMarlinMoEMethod"
    /\ moe.phase = "Uninitialized"
    /\ \E shape \in MoEShapes :
          /\ MoEShapeAccepted(method.quant_config, shape)
          /\ moe' = GPTQMarlinMoEMethod_create_weights(
                        method.quant_config, NumExperts, shape.hidden_size,
                        shape.intermediate_size_per_partition,
                        shape.intermediate_size_full)
    /\ UNCHANGED <<ctor, config, method, dense>>

MoELoadWeights ==
    /\ method.kind = "GPTQMarlinMoEMethod"
    /\ moe.phase = "WeightsAllocated"
    /\ ~moe.loaded
    /\ \E checkpoint \in [Experts -> Checkpoints] :
          moe' = LoadWeights(moe, checkpoint)
    /\ UNCHANGED <<ctor, config, method, dense>>

\* The model loader calls process_weights_after_loading once the checkpoint
\* is loaded into the layer; nothing keeps a caller from calling it again.
MoEProcessWeightsAfterLoading ==
    /\ method.kind = "GPTQMarlinMoEMethod"
    /\ moe.finalize_calls < MaxFinalize
    /\ moe.registered => moe.loaded
    /\ IF moe.registered /\ method.quant_config.desc_act
       THEN \E si13 \in ArgsortRows(moe.w13_g_idx.data, moe.w13_g_idx.shape[1]),
               si2 \in ArgsortRows(moe.w2_g_idx.data, moe.w2_g_idx.shape[1]) :
               moe' = GPTQMarlinMoEMethod_process_weights_after_loading(
                          moe, method.quant_config, si13, si2)
       ELSE moe' = GPTQMarlinMoEMethod_process_weights_after_loading(
                       moe, method.quant_config, <<>>, <<>>)
    /\ UNCHANGED <<ctor, config, method, dense>>

MoEApply ==
    /\ method.kind = "GPTQMarlinMoEMethod"
    /\ moe.apply_calls < MaxApply
    /\ \E enable_eplb \in BOOLEAN, activation \in Activations :
          moe' = GPTQMarlinMoEMethod_apply(moe, enable_eplb, activation)
    /\ UNCHANGED <<ctor, config, method, dense>>

Next ==
    \/ Construct
    \/ GetQuantMethod
    \/ DenseCreateWeights
    \/ DenseProcessWeightsAfterLoading
    \/ DenseApply
    \/ MoECreateWeights
    \/ MoELoadWeights
    \/ MoEProcessWeightsAfterLoading
    \/ MoEApply

Spec == Init /\ [][Next]_vars

----------------------------------------------------------------------------
(* Properties *)

DenseCreated == dense.phase # "Uninitialized"
MoECreated == moe.registered
MoEFinalized == moe.finalize_calls > 0

\* Rows of the global group axis that rank r of tp ranks holds when every
\* rank holds `rows` consecutive rows.
RankRows(r, rows) == {r * rows + i : i \in 0..(rows - 1)}

C2_AsStated ==
    (MoECreated /\ method.quant_config.group_size > 0) =>
        LET qc == method.quant_config
            part == moe.intermediate_size_per_partition \div qc.group_size
            full == moe.intermediate_size_full \div qc.group_size
        IN  /\ (qc.desc_act /\ moe.intermediate_size_per_partition
                                   # moe.intermediate_size_full) =>
                   /\ moe.w2_scales.shape[2] = part
                   /\ moe.w2_qzeros.shape[2] = part
                   /\ ~moe.w2_scales_load_full_w2
                   /\ ~moe.w2_qzeros_load_full_w2
            /\ ~qc.desc_act =>
                   /\ moe.w2_scales.shape[2] = full
                   /\ moe.w2_qzeros.shape[2] = full

\* C2, amended: with group_size > 0 the MoE w2 scales and zero points are held
\* at full size (intermediate_size_full / group_size rows, load_full_w2 true)
\* exactly when activation order is enabled, and are sized on the rank's
\* partition (intermediate_size_per_partition / group_size rows, load_full_w2
\* false) when it is disabled.
C2_FullSizeIffActOrder ==
    (MoECreated /\ method.quant_config.group_size > 0) =>
        LET qc == method.quant_config
            part == moe.intermediate_size_per_partition \div qc.group_size
            full == moe.intermediate_size_full \div qc.group_size
        IN  /\ moe.w2_qzeros.shape[2] = moe.w2_scales.shape[2]
            /\ moe.w2_scales_load_full_w2 = qc.desc_act
            /\ moe.w2_qzeros_load_full_w2 = qc.desc_act
            /\ moe.w2_scales.shape[2] = IF qc.desc_act THEN full ELSE part

C2_Witness ==
    /\ MoECreated
    /\ method.quant_config.group_size > 0
    /\ method.quant_config.desc_act
    /\ moe.intermediate_size_per_partition # moe.intermediate_size_full
    /\ moe.w2_scales.shape[2]
           # moe.intermediate_size_per_partition
                 \div method.quant_config.group_size

\* C3 as stated: the effective group size of dense create_weights is
\* input_size_per_partition when group_size == -1, else the configured one.
C3_AsStated ==
    DenseCreated =>
        dense.group_size = IF method.quant_config.group_size = -1
                           THEN dense.input_size_per_partition
                           ELSE method.quant_config.group_size

\* C3, amended: the effective group size of dense create_weights is the full
\* input_size when group_size == -1, else the configured one, and the scale
\* and zero-point tensors have (input_size, or input_size_per_partition when
\* sharded) / effective group size rows.
C3_EffectiveGroupSizeIsInputSize ==
    DenseCreated =>
        LET effective == IF method.quant_config.group_size = -1
                         THEN dense.input_size
                         ELSE method.quant_config.group_size
            extent == IF dense.scales.input_dim = "None"
                      THEN dense.input_size
                      ELSE dense.input_size_per_partition
        IN  /\ dense.group_size = effective
            /\ dense.scales.shape[1] = extent \div effective
            /\ dense.qzeros.shape[1] = extent \div effective

C3_Witness ==
    /\ DenseCreated
    /\ method.quant_config.group_size = -1
    /\ dense.is_row_parallel
    /\ dense.group_size = dense.input_size
    /\ dense.scales.shape[1] = 1

\* C4: a FusedMoE layer whose name matches a "-:" rule gets the unquantized
\* method from get_quant_method, whatever the capability check says.
C4_ExcludedMoEIsUnquantized ==
    (method.kind # "none" /\ method.layer_kind = "FusedMoE" /\ method.excluded)
        => method.kind = "UnquantizedFusedMoEMethod"

\* C5: a second process_weights_after_loading on a finalized layer is
\* rejected: no tensor is repacked or permuted twice, and the dense kernel is
\* not asked to process the weights twice.
C5_NoSecondFinalize ==
    /\ moe.finalize_calls <= 1
    /\ moe.w13_qweight.repacks <= 1
    /\ moe.w2_qweight.repacks <= 1
    /\ moe.w13_scales.permutes <= 1
    /\ moe.w2_scales.permutes <= 1
    /\ dense.finalize_calls <= 1

\* C6: an apply on a layer that was not finalized does not reach the kernel.
C6_ApplyOnlyAfterFinalize ==
    /\ moe.last_apply.outcome = "kernel" => moe.last_apply.phase = "Finalized"
    /\ dense.last_apply.outcome = "kernel" => dense.last_apply.phase = "Finalized"

\* The stable ascending argsort of a row (0-based indices).
StableArgsort(row) == [k \in DOMAIN row |-> PositionsByValue(row)[k] - 1]

IsPermutation(indices) ==
    {indices[k] : k \in DOMAIN indices} = 0..(Len(indices) - 1)

NonDecreasing(row) ==
    \A k \in DOMAIN row : k > 1 => row[k - 1] <= row[k]

ActOrderFinalizeStep ==
    /\ method.quant_config.desc_act
    /\ moe.registered
    /\ moe'.finalize_calls = moe.finalize_calls + 1

\* C7 as stated: with activation order, MoE finalize stores for every expert
\* the stable ascending argsort of its g_idx row and the row gathered by it.
C7_AsStated ==
    [][ActOrderFinalizeStep =>
          \A e \in Experts :
              /\ moe'.w13_g_idx_sort_indices.data[e]
                     = StableArgsort(moe.w13_g_idx.data[e])
              /\ moe'.w2_g_idx_sort_indices.data[e]
                     = StableArgsort(moe.w2_g_idx.data[e])
              /\ moe'.w13_g_idx.data[e]
                     = Gather(moe.w13_g_idx.data[e],
                              moe'.w13_g_idx_sort_indices.data[e])
              /\ moe'.w2_g_idx.data[e]
                     = Gather(moe.w2_g_idx.data[e],
                              moe'.w2_g_idx_sort_indices.data[e])]_vars

\* C7, amended: with activation order, MoE finalize stores for every expert e
\* a sort_indices[e] that is a permutation of 0..n-1 ordering g_idx[e]
\* ascending by group id (the order of positions with equal group id is not
\* determined), and sorted_g_idx[e] = g_idx[e][sort_indices[e]], which is
\* non-decreasing.
C7_SortIndicesOrderEachExpert ==
    [][ActOrderFinalizeStep =>
          \A e \in Experts :
              /\ Len(moe'.w13_g_idx_sort_indices.data[e])
                     = Len(moe.w13_g_idx.data[e])
              /\ Len(moe'.w2_g_idx_sort_indices.data[e])
                     = Len(moe.w2_g_idx.data[e])
              /\ IsPermutation(moe'.w13_g_idx_sort_indices.data[e])
              /\ IsPermutation(moe'.w2_g_idx_sort_indices.data[e])
              /\ moe'.w13_g_idx.data[e]
                     = Gather(moe.w13_g_idx.data[e],
                              moe'.w13_g_idx_sort_indices.data[e])
              /\ moe'.w2_g_idx.data[e]
                     = Gather(moe.w2_g_idx.data[e],
                              moe'.w2_g_idx_sort_indices.data[e])
              /\ NonDecreasing(moe'.w13_g_idx.data[e])
              /\ NonDecreasing(moe'.w2_g_idx.data[e])]_vars

C7_Witness ==
    /\ method.quant_config.desc_act
    /\ moe.finalize_calls = 1
    /\ \E e1, e2 \in Experts :
          /\ moe.w13_g_idx.data[e1][1] = moe.w13_g_idx.data[e1][2]
          /\ moe.w13_g_idx_sort_indices.data[e1] # moe.w13_g_idx_sort_indices.data[e2]

PermuteFactor ==
    IF method.quant_config.group_size # -1
    THEN method.quant_config.group_size
    ELSE method.quant_config.pack_factor

ChannelWiseOneRow ==
    method.quant_config.group_size = -1 =>
        /\ moe.permute_w13.scale_rows = 1
        /\ moe.permute_w2.scale_rows = 1
        /\ moe.w13_scales.shape[2] = 1
        /\ moe.w2_scales.shape[2] = 1

\* C8 as stated: in MoE finalize the size_k of both scale permutations is
\* scale_rows x group_size (group-wise) or scale_rows x pack_factor
\* (channel-wise, where the scale tensor has 1 row per expert).
C8_AsStated ==
    MoEFinalized =>
        /\ moe.permute_w13.size_k = moe.permute_w13.scale_rows * PermuteFactor
        /\ moe.permute_w2.size_k = moe.permute_w2.scale_rows * PermuteFactor
        /\ ChannelWiseOneRow

\* C8, amended: in MoE finalize the size_k of the w2 scale permutation is
\* scale_rows x group_size (group-wise) or scale_rows x pack_factor
\* (channel-wise, where the scale tensor has 1 row per expert); the w13 scale
\* permutation is given layer.intermediate_size_per_partition as size_k.
C8_W2SizeKFromScaleRows ==
    MoEFinalized =>
        /\ moe.permute_w2.scale_rows = moe.w2_scales.shape[2]
        /\ moe.permute_w2.size_k = moe.permute_w2.scale_rows * PermuteFactor
        /\ moe.permute_w13.size_k = moe.intermediate_size_per_partition
        /\ ChannelWiseOneRow

C8_Witness ==
    /\ MoEFinalized
    /\ method.quant_config.group_size = -1
    /\ moe.permute_w2.size_k = method.quant_config.pack_factor
    /\ moe.permute_w13.size_k # method.quant_config.pack_factor

\* C9 as stated: for dense and MoE layers alike, a failed capability check
\* makes get_quant_method route to an alternate method, and it does not raise.
C9_AsStated ==
    (method.kind # "none" /\ ~method.supported) =>
        method.kind \in {"MoeWNA16", "UnquantizedFusedMoEMethod",
                         "UnquantizedLinearMethod"}

\* C9, amended: for a FusedMoE layer a failed capability check makes
\* get_quant_method route to the MoeWNA16 method without raising; a dense
\* layer is never routed to an alternate quantization method: unless a "-:"
\* rule excludes it, it goes to GPTQMarlinLinearMethod, whose constructor
\* verifies Marlin support and fails on a mismatch.
C9_OnlyMoEFallsBack ==
    method.kind # "none" =>
        /\ (method.layer_kind = "FusedMoE" /\ ~method.supported)
               => method.kind = "MoeWNA16"
        /\ method.layer_kind = "LinearBase" =>
               /\ method.kind # "MoeWNA16"
               /\ method.excluded => method.kind = "UnquantizedLinearMethod"
               /\ ~method.excluded =>
                      method.kind = IF method.supported
                                    THEN "GPTQMarlinLinearMethod"
                                    ELSE "ValueError"

C9_Witness ==
    /\ method.layer_kind = "FusedMoE"
    /\ ~method.supported
    /\ method.kind = "MoeWNA16"

\* C10: constructing GPTQMarlinConfig succeeds exactly for (weight_bits,
\* is_sym) in {(4, true), (8, true)}, with quant_type uint4b8 resp. uint8b128;
\* for every other pair it raises ValueError and yields no config.
C10_ValueErrorUnlessSupported ==
    ctor.outcome # "none" =>
        IF <<ctor.weight_bits, ctor.is_sym>> \in {<<4, TRUE>>, <<8, TRUE>>}
        THEN /\ ctor.outcome = "ok"
             /\ config.quant_type = IF ctor.weight_bits = 4
                                    THEN "uint4b8" ELSE "uint8b128"
        ELSE /\ ctor.outcome = "ValueError"
             /\ config = NoConfig


\* A step that is one call of GPTQMarlinMoEMethod.apply.
MoEApplyStep == moe'.apply_calls = moe.apply_calls + 1

\* C11: MoE apply rejects unsupported feature combinations before any work:
\* with enable_eplb set it raises NotImplementedError, otherwise with an
\* activation other than "silu" it fails its assertion; in both cases neither
\* select_experts nor the fused kernel is invoked and no layer tensor changes.
C11_ApplyRejectsBeforeAnyWork ==
    [][MoEApplyStep =>
          LET call == moe'.last_apply
          IN  /\ call.enable_eplb => call.outcome = "NotImplementedError"
              /\ (~call.enable_eplb /\ call.activation # "silu")
                     => call.outcome = "AssertionError"
              /\ (call.enable_eplb \/ call.activation # "silu") =>
                     /\ ~call.select_experts
                     /\ call.outcome # "kernel"
                     /\ moe' = [moe EXCEPT !.apply_calls = @ + 1,
                                           !.last_apply = call]]_vars

C11_Witness ==
    /\ moe.phase = "Finalized"
    /\ moe.last_apply.phase = "Finalized"
    /\ ~moe.last_apply.enable_eplb
    /\ moe.last_apply.activation = "gelu"
    /\ moe.last_apply.outcome = "AssertionError"
    /\ ~moe.last_apply.select_experts


\* A step that is one process_weights_after_loading call on a created MoE
\* layer whose config has activation order disabled.
ResetFinalizeStep ==
    /\ ~method.quant_config.desc_act
    /\ moe.registered
    /\ moe'.finalize_calls = moe.finalize_calls + 1

\* An index tensor of shape (num_experts, 0): a zero-length row per expert.
IsZeroLengthPerExpert(tensor, num_experts) ==
    /\ tensor.shape = <<num_experts, 0>>
    /\ DOMAIN tensor.data = 1..num_experts
    /\ \A e \in 1..num_experts : Len(tensor.data[e]) = 0

\* C12: when activation order is not enabled, MoE finalize resets all four
\* index tensors (w13_g_idx, w2_g_idx, w13_g_idx_sort_indices,
\* w2_g_idx_sort_indices) to shape (num_experts, 0), whatever the loader had
\* written into them.
C12_DisabledFinalizeResetsIndexTensors ==
    [][ResetFinalizeStep =>
          LET num_experts == moe.w13_g_idx.shape[1]
          IN  /\ num_experts = NumExperts
              /\ IsZeroLengthPerExpert(moe'.w13_g_idx, num_experts)
              /\ IsZeroLengthPerExpert(moe'.w2_g_idx, num_experts)
              /\ IsZeroLengthPerExpert(moe'.w13_g_idx_sort_indices, num_experts)
              /\ IsZeroLengthPerExpert(moe'.w2_g_idx_sort_indices, num_experts)]_vars

C12_Witness ==
    /\ ~method.quant_config.desc_act
    /\ method.quant_config.group_size # -1
    /\ moe.loaded
    /\ moe.finalize_calls = 1
    /\ moe.w13_g_idx = EmptyRows(NumExperts)
    /\ moe.w2_g_idx = EmptyRows(NumExperts)
    /\ moe.w13_g_idx_sort_indices = EmptyRows(NumExperts)
    /\ moe.w2_g_idx_sort_indices = EmptyRows(NumExperts)


\* A step that is one process_weights_after_loading call on a created MoE
\* layer.
MoEFinalizeStep ==
    /\ moe.registered
    /\ moe'.finalize_calls = moe.finalize_calls + 1

\* What gptq_marlin_moe_repack makes of a packed weight of the given shape.
KernelLayoutShape(shape) ==
    MarlinRepackShape(shape[1],
                      shape[2] * method.quant_config.pack_factor, shape[3],
                      size_bits(method.quant_config.quant_type))

\* C13: in MoE finalize the activation-order step completes before the weight
\* repack and the weight repack before the scale permutation; the repack of
\* w13 and of w2 consumes the sort indices this same call installed (with
\* activation order the argsort result, a permutation of each expert's g_idx
\* positions, see C7; the zero-length tensor without), never the uninitialized
\* tensor create_weights allocated; and after the call the w13/w2 qweight and
\* scales are the kernel-layout ones.
C13_ActOrderThenRepackThenPermute ==
    [][MoEFinalizeStep =>
          /\ moe'.steps = <<"act_order", "repack_w13", "repack_w2",
                            "permute_w13", "permute_w2">>
          /\ moe'.repack_w13.perm = moe'.w13_g_idx_sort_indices
          /\ moe'.repack_w2.perm = moe'.w2_g_idx_sort_indices
          /\ moe'.repack_w13.perm.init
          /\ moe'.repack_w2.perm.init
          /\ IF method.quant_config.desc_act
             THEN /\ moe'.repack_w13.perm.shape = moe.w13_g_idx.shape
                  /\ moe'.repack_w2.perm.shape = moe.w2_g_idx.shape
                  /\ \A e \in Experts :
                         /\ IsPermutation(moe'.repack_w13.perm.data[e])
                         /\ IsPermutation(moe'.repack_w2.perm.data[e])
                         /\ Len(moe'.repack_w13.perm.data[e])
                                = moe.w13_g_idx.shape[2]
                         /\ Len(moe'.repack_w2.perm.data[e])
                                = moe.w2_g_idx.shape[2]
             ELSE /\ moe'.repack_w13.perm = EmptyRows(NumExperts)
                  /\ moe'.repack_w2.perm = EmptyRows(NumExperts)
          /\ moe'.w13_qweight.shape = KernelLayoutShape(moe.w13_qweight.shape)
          /\ moe'.w2_qweight.shape = KernelLayoutShape(moe.w2_qweight.shape)
          /\ moe'.w13_qweight.repacks = moe.w13_qweight.repacks + 1
          /\ moe'.w2_qweight.repacks = moe.w2_qweight.repacks + 1
          /\ moe'.w13_scales.permutes = moe.w13_scales.permutes + 1
          /\ moe'.w2_scales.permutes = moe.w2_scales.permutes + 1]_vars

C13_Witness ==
    /\ method.quant_config.desc_act
    /\ moe.finalize_calls = 1
    /\ moe.steps = <<"act_order", "repack_w13", "repack_w2",
                     "permute_w13", "permute_w2">>
    /\ moe.repack_w13.perm.init
    /\ moe.repack_w13.perm = moe.w13_g_idx_sort_indices
    /\ moe.repack_w13.perm.shape = <<NumExperts, moe.hidden_size>>
    /\ moe.w13_qweight.repacks = 1
    /\ moe.w2_scales.permutes = 1


\* C14: dense create_weights allocates the packed weight with physical shape
\* (input_size_per_partition / pack_factor, output_size_per_partition), where
\* pack_factor = 32 / weight_bits, so rows x pack_factor is the partition
\* input size when that is a multiple of pack_factor; the scale tensor has
\* input_size / group_size rows when unsharded (bits 4, group_size 128,
\* 4096 x 4096: qweight (512, 4096), 32 scale rows); the zero-point tensor has
\* as many rows as the scale tensor.
C14_PackedWeightAndScaleShapes ==
    DenseCreated =>
        LET qc == method.quant_config
            pack_factor == 32 \div qc.weight_bits
            group_size == IF qc.group_size = -1 THEN dense.input_size
                          ELSE qc.group_size
        IN  /\ dense.qweight.packed_factor = pack_factor
            /\ dense.qweight.shape
                   = <<dense.input_size_per_partition \div pack_factor,
                       dense.output_size_per_partition>>
            /\ dense.input_size_per_partition % pack_factor = 0 =>
                   dense.qweight.shape[1] * pack_factor
                       = dense.input_size_per_partition
            /\ dense.scales.input_dim = "None" =>
                   dense.scales.shape[1] = dense.input_size \div group_size
            /\ dense.scales.shape[2] = dense.output_size_per_partition
            /\ dense.qzeros.shape[1] = dense.scales.shape[1]
            /\ (/\ qc.weight_bits = 4
                /\ qc.group_size = 128
                /\ dense.input_size = 4096
                /\ dense.input_size_per_partition = 4096
                /\ dense.output_size_per_partition = 4096) =>
                   /\ dense.qweight.shape = <<512, 4096>>
                   /\ dense.scales.shape[1] = 32

C14_Witness ==
    /\ DenseCreated
    /\ method.quant_config.weight_bits = 4
    /\ method.quant_config.group_size = 128
    /\ dense.input_size = 4096
    /\ dense.input_size_per_partition = 4096
    /\ dense.output_size_per_partition = 4096
    /\ dense.scales.input_dim = "None"
    /\ dense.qweight.shape = <<512, 4096>>
    /\ dense.scales.shape = <<32, 4096>>
    /\ dense.qzeros.shape[1] = 32


====
